---- MODULE Spec2Model ----
(***************************************************************************)
(* A model of fluent-reader-server's text segmentation (src/lang.rs) and   *)
(* of the user / token data types and conversions of src/models.rs,        *)
(* together with the authentication operations that use them.              *)
(*                                                                         *)
(* A text is a sequence of characters; a character is a one-character      *)
(* string, the two ideographs being written by their code points           *)
(* ("U+6211", "U+4EEC") because the module is ASCII.  A token (&str slice  *)
(* of the text) is a sequence of characters.                               *)
(***************************************************************************)
EXTENDS Naturals, Sequences, FiniteSets, TLC

VARIABLES
    text,           \* lang.rs: the `text` argument of get_words
    lang,           \* lang.rs: the `lang` argument of get_words
    pc,             \* position of the caller: "start", "segmented", "indexed", "panicked"
    words,          \* outcome of get_words(text, lang)
    unique_words,   \* result of get_unique_words(&words)
    users,          \* the fruser table: user id -> User
    now,            \* the clock, in token-lifetime units
    minted,         \* number of access tokens signed so far
    logins,         \* number of refresh tokens generated so far
    handed,         \* per user, the refresh tokens returned by logins, in order
    held,           \* per user, the access token of the latest login / refresh response
    resp            \* the last request, its response and what it wrote to stderr

langVars == <<text, lang, pc, words, unique_words>>

authVars == <<users, now, minted, logins, handed, held, resp>>

vars == <<text, lang, pc, words, unique_words,
          users, now, minted, logins, handed, held, resp>>

-----------------------------------------------------------------------------
(* Bounds *)

\* longest enumerated input text, in characters
MaxLen == 4

\* the clock runs from 0 to MaxTime
MaxTime == 2

\* access tokens signed in one behaviour
MaxMinted == 2

\* access tokens signed in one behaviour of logins and refreshes alone
MaxSessions == 4

-----------------------------------------------------------------------------
(* Characters *)

Han == {"U+6211", "U+4EEC"}

UpperLetters == {"A", "H"}

LowerLetters == {"a", "h", "e", "l", "o", "w", "r", "d"}

Letters == UpperLetters \cup LowerLetters

Whitespace == {" "}

Punctuation == {",", "!"}

\* the characters texts are enumerated over
Alphabet == {"A", "a", " ", ",", "U+6211", "U+4EEC"}

\* the example of the test suite: "Hello, world!"
HelloWorld == <<"H", "e", "l", "l", "o", ",", " ", "w", "o", "r", "l", "d", "!">>

RECURSIVE SeqsUpTo(_, _)
SeqsUpTo(S, n) ==
    IF n = 0 THEN {<<>>}
    ELSE LET shorter == SeqsUpTo(S, n - 1)
         IN  shorter \cup {Append(s, c) : s \in shorter, c \in S}

Texts == SeqsUpTo(Alphabet, MaxLen) \cup {HelloWorld}

LangCodes == {"en", "zh", "fr", "EN"}

\* char::to_lowercase, as str::to_lowercase applies it to each character
ToLowerChar(c) ==
    CASE c = "A" -> "a"
      [] c = "H" -> "h"
      [] OTHER -> c

\* str::to_lowercase
to_lowercase(word) == [i \in 1..Len(word) |-> ToLowerChar(word[i])]

RECURSIVE Concat(_)
Concat(tokens) ==
    IF tokens = <<>> THEN <<>> ELSE Head(tokens) \o Concat(Tail(tokens))

-----------------------------------------------------------------------------
(* get_words_english: text.split_word_bounds().collect()                   *)
(* UAX #29 word boundaries over the characters above: letters are ALetter, *)
(* the space is WSegSpace, "," is MidNum (joins only between digits, and   *)
(* there are none), "!" and the ideographs are Other.  No break between    *)
(* two letters (WB5) or two spaces (WB3d); a break everywhere else (WB999).*)

NoBreakBetween(a, b) ==
    \/ a \in Letters /\ b \in Letters
    \/ a \in Whitespace /\ b \in Whitespace

RECURSIVE SplitFrom(_, _, _, _)
SplitFrom(t, i, cur, acc) ==
    IF i > Len(t) THEN (IF cur = <<>> THEN acc ELSE Append(acc, cur))
    ELSE IF cur = <<>> \/ NoBreakBetween(cur[Len(cur)], t[i])
         THEN SplitFrom(t, i + 1, Append(cur, t[i]), acc)
         ELSE SplitFrom(t, i + 1, <<t[i]>>, Append(acc, cur))

\* the mutant: text.unicode_words(), which keeps only the word-like tokens
unicode_words(t) ==
    SelectSeq(SplitFrom(t, 1, <<>>, <<>>), LAMBDA w : w[1] \in Letters \cup Han)

get_words_english(t) == SplitFrom(t, 1, <<>>, <<>>)

-----------------------------------------------------------------------------
(* get_words_chinese: JIEBA.cut(text, false)                               *)
(* Jieba splits the text into blocks matching its "han" pattern            *)
(* (ideographs, ASCII letters and digits, a few symbols) and blocks that   *)
(* do not.  An unmatched block is emitted character by character (each     *)
(* whitespace character, matched by the "skip" pattern, alone as well).    *)
(* A matched block is cut along the most probable dictionary route; with   *)
(* hmm = false, consecutive one-character ASCII alphanumeric pieces of the *)
(* route are merged into one token.                                        *)

\* the two ideographs form one dictionary word
Dict == {<<"U+6211", "U+4EEC">>}

InHanBlock(c) == c \in Han \cup Letters

\* route[x].1 + 1: the end of the dictionary word the route takes at x
RouteEnd(t, x) ==
    IF x < Len(t) /\ <<t[x], t[x + 1]>> \in Dict THEN x + 1 ELSE x

RECURSIVE CutFrom(_, _, _, _)
CutFrom(t, x, buf, acc) ==
    LET flushed == IF buf = <<>> THEN acc ELSE Append(acc, buf) IN
    IF x > Len(t) THEN flushed
    ELSE IF ~InHanBlock(t[x])
         THEN CutFrom(t, x + 1, <<>>, Append(flushed, <<t[x]>>))
         ELSE LET y == RouteEnd(t, x)
                  l_str == SubSeq(t, x, y)
              IN  IF Len(l_str) = 1 /\ l_str[1] \in Letters
                  THEN CutFrom(t, y + 1, Append(buf, t[x]), acc)
                  ELSE CutFrom(t, y + 1, <<>>, Append(flushed, l_str))

get_words_chinese(t) == CutFrom(t, 1, <<>>, <<>>)

-----------------------------------------------------------------------------
(* get_words: the dispatch on the language code.  The outcome is a token   *)
(* vector returned to the caller ("ok") or a panic carrying its message.   *)
(* An error value returned to the caller would be kind "err"; the function *)
(* returns Vec<&str>, so it has no such outcome.                           *)

Returned(tokens) == [kind |-> "ok", tokens |-> tokens, msg |-> <<>>]

Panicked(msg) == [kind |-> "panic", tokens |-> <<>>, msg |-> msg]

\* the mutant: an unrecognised code falls back to the English strategy
get_words_fallback(t, l) ==
    CASE l = "zh" -> Returned(get_words_chinese(t))
      [] OTHER -> Returned(get_words_english(t))

get_words(t, l) ==
    CASE l = "en" -> Returned(get_words_english(t))
      [] l = "zh" -> Returned(get_words_chinese(t))
      [] OTHER -> Panicked(t)

-----------------------------------------------------------------------------
(* get_unique_words: a JSON object, here a function from keys to values,   *)
(* filled by one insert per token.                                         *)

\* serde_json::Map::insert
Insert(map, k, v) ==
    [x \in DOMAIN map \cup {k} |-> IF x = k THEN v ELSE map[x]]

EmptyObject == [x \in {} |-> TRUE]

\* no object yet: get_unique_words has not run
NoObject == [x \in {<<"-">>} |-> FALSE]

RECURSIVE InsertAll(_, _, _)
InsertAll(map, ws, i) ==
    IF i > Len(ws) THEN map
    ELSE InsertAll(Insert(map, to_lowercase(ws[i]), TRUE), ws, i + 1)

RECURSIVE InsertAllAsIs(_, _, _)
InsertAllAsIs(map, ws, i) ==
    IF i > Len(ws) THEN map
    ELSE InsertAllAsIs(Insert(map, ws[i], TRUE), ws, i + 1)

\* the mutant: the token is inserted without to_lowercase()
get_unique_words_no_fold(ws) == InsertAllAsIs(EmptyObject, ws, 1)

\* the mutant: only word-like tokens are inserted
get_unique_words_filtered(ws) ==
    InsertAll(EmptyObject,
              SelectSeq(ws, LAMBDA w : \E i \in 1..Len(w) : w[i] \in Letters \cup Han),
              1)

get_unique_words(ws) == InsertAll(EmptyObject, ws, 1)

-----------------------------------------------------------------------------
(* models.rs: the data types.  Option<T>: None is <<>>, Some(v) is <<v>>.  *)

None == <<>>

Some(v) == <<v>>

UserIds == {1, 2}

Usernames == {"ann", "bob", "cyd"}

Passwords == {"pw1", "pw2"}

\* user::db::User
User(id, username, pass, created_on, study_lang, display_lang, refresh_token) ==
    [id |-> id, username |-> username, pass |-> pass, created_on |-> created_on,
     study_lang |-> study_lang, display_lang |-> display_lang,
     refresh_token |-> refresh_token]

\* user::net::UpdateUserRequest
UpdateUserRequestOf(username, password, study_lang, display_lang) ==
    [username |-> username, password |-> password,
     study_lang |-> study_lang, display_lang |-> display_lang]

\* the update requests sent: no field, the username alone, every field
UpdateUserRequest ==
    {UpdateUserRequestOf(None, None, None, None),
     UpdateUserRequestOf(Some("cyd"), None, None, None),
     UpdateUserRequestOf(Some("bob"), Some("pw2"), Some("zh"), Some("en"))}

\* UpdateUserOpt::none
none ==
    [username |-> None, pass |-> None, study_lang |-> None,
     display_lang |-> None, refresh_token |-> None]

\* the mutant: the password of the request is copied into refresh_token too
from_req_copies_password(req) ==
    [username |-> req.username, pass |-> req.password,
     study_lang |-> req.study_lang, display_lang |-> req.display_lang,
     refresh_token |-> req.password]

\* UpdateUserOpt::from_req
from_req(req) ==
    [username |-> req.username, pass |-> req.password,
     study_lang |-> req.study_lang, display_lang |-> req.display_lang,
     refresh_token |-> None]

\* the mutant: the two language fields are swapped in the snapshot
from_user_swapped(user) ==
    [id |-> user.id, username |-> user.username, created_on |-> user.created_on,
     study_lang |-> user.display_lang, display_lang |-> user.study_lang]

\* the mutant: the password credential is copied where the username belongs
from_user_leaks_pass(user) ==
    [id |-> user.id, username |-> user.pass, created_on |-> user.created_on,
     study_lang |-> user.study_lang, display_lang |-> user.display_lang]

\* ClaimsUser::from_user
from_user(user) ==
    [id |-> user.id, username |-> user.username, created_on |-> user.created_on,
     study_lang |-> user.study_lang, display_lang |-> user.display_lang]

\* user::auth::TokenClaims
TokenClaims(exp, user) == [exp |-> exp, user |-> user]

\* user::net::auth::LoginResponse
LoginResponse(token, refresh_token) == [token |-> token, refresh_token |-> refresh_token]

\* user::net::auth::RefreshResponse
RefreshResponse(token) == [token |-> token]

-----------------------------------------------------------------------------
(* The token codec and the store, which models.rs only names               *)
(* (crate::auth, the fruser table).                                        *)

\* lifetime of an access token, in clock units
TokenLifetime == 1

NoIdentity == [id |-> 0, username |-> "", created_on |-> 0,
               study_lang |-> "", display_lang |-> ""]

NoClaims == TokenClaims(0, NoIdentity)

\* A token on the wire: the claims it carries and the claims its signature
\* was computed over.  Only the server can produce a signature.
Sign(claims) == [form |-> "jwt", claims |-> claims, mac |-> claims]

Missing == [form |-> "absent", claims |-> NoClaims, mac |-> NoClaims]

Malformed == [form |-> "garbage", claims |-> NoClaims, mac |-> NoClaims]

\* a signed token whose claims were altered afterwards
TamperUser(tok, id) == [tok EXCEPT !.claims.user.id = id]

TamperExp(tok) == [tok EXCEPT !.claims.exp = MaxTime + TokenLifetime]

\* the n-th value of the random refresh-token generator
Rand(n) ==
    CASE n = 1 -> "r1" [] n = 2 -> "r2" [] n = 3 -> "r3"
      [] n = 4 -> "r4" [] n = 5 -> "r5" [] OTHER -> "r6"

AuthOk(claims) == [ok |-> TRUE, claims |-> claims, error |-> ""]

AuthErr(kind) == [ok |-> FALSE, claims |-> NoClaims, error |-> kind]

\* signature check and decoding; the expiry is compared with the clock only
\* when check_exp
Decode(tok, check_exp) ==
    IF tok.form # "jwt" \/ tok.mac # tok.claims THEN AuthErr("TokenInvalid")
    ELSE IF check_exp /\ tok.claims.exp < now THEN AuthErr("TokenExpired")
    ELSE AuthOk(tok.claims)

\* crate::auth::attempt_req_token_auth: Result<ClaimsUser, error>
attempt_req_token_auth(req) ==
    LET d == Decode(req.token, TRUE)
    IN  [ok |-> d.ok, user |-> d.claims.user, error |-> d.error]

\* the store's update of one row by an UpdateUserOpt
Pick(opt, old) == IF opt = None THEN old ELSE opt[1]

update_user(user, opt) ==
    User(user.id, Pick(opt.username, user.username), Pick(opt.pass, user.pass),
         user.created_on, Pick(opt.study_lang, user.study_lang),
         Pick(opt.display_lang, user.display_lang),
         Pick(opt.refresh_token, user.refresh_token))

-----------------------------------------------------------------------------
(* impl FromRequest for ClaimsUser *)

Extracted(user) ==
    [ok |-> TRUE, user |-> user, status |-> "ok", body |-> "", eprintln |-> {}]

\* err(ErrorUnauthorized("auth_fail")), after eprintln!("{}", error)
Rejected(error) ==
    [ok |-> FALSE, user |-> NoIdentity, status |-> "Unauthorized",
     body |-> "auth_fail", eprintln |-> {error}]

\* the mutant: the failure is reported with the error as the response body
from_request_leaks_error(req) ==
    LET r == attempt_req_token_auth(req)
    IN  IF r.ok THEN Extracted(r.user)
        ELSE [Rejected(r.error) EXCEPT !.body = r.error]

\* the mutant: the identity is read again from the store
from_request_reloads(req) ==
    LET r == attempt_req_token_auth(req)
    IN  IF r.ok THEN Extracted(from_user(users[r.user.id]))
        ELSE Rejected(r.error)

from_request(req) ==
    LET r == attempt_req_token_auth(req)
    IN  IF r.ok THEN Extracted(r.user) ELSE Rejected(r.error)

-----------------------------------------------------------------------------
(* The requests *)

HttpRequest(token) == [token |-> token]

\* The last exchange: the route (op) and the instant of the request, what was
\* presented (at: access token, rt: refresh token, req: update body), what
\* the handler was given (identity, opt), what was answered (status, body,
\* token, refresh_token) and what the request wrote to stderr (eprintln).
Resp(op, status, body, identity, token, refresh_token, at, rt, req, opt, log) ==
    [op |-> op, time |-> now, status |-> status, body |-> body,
     identity |-> identity, token |-> token, refresh_token |-> refresh_token,
     at |-> at, rt |-> rt, req |-> req, opt |-> opt, eprintln |-> log]

NoReq == UpdateUserRequestOf(None, None, None, None)

NoResp ==
    [op |-> "none", time |-> 0, status |-> "", body |-> "",
     identity |-> NoIdentity, token |-> Missing, refresh_token |-> "",
     at |-> Missing, rt |-> "", req |-> NoReq, opt |-> none, eprintln |-> {}]

InitialUsers ==
    [u \in UserIds |->
        IF u = 1 THEN User(1, "ann", "pw1", 1, "en", "zh", "")
        ELSE User(2, "bob", "pw1", 2, "zh", "en", "")]

AuthIdle ==
    /\ users = InitialUsers
    /\ now = 0
    /\ minted = 0
    /\ logins = 0
    /\ handed = [u \in UserIds |-> <<>>]
    /\ held = [u \in UserIds |-> Missing]
    /\ resp = NoResp

LangIdle ==
    /\ text = <<>>
    /\ lang = "en"
    /\ pc = "start"
    /\ words = Returned(<<>>)
    /\ unique_words = NoObject

Init == LangIdle /\ AuthIdle

Holders == {u \in UserIds : held[u].form = "jwt"}

\* the access tokens a client can present to a protected route
AccessInputs ==
    {Missing, Malformed}
    \cup {held[u] : u \in UserIds}
    \cup {TamperExp(held[u]) : u \in Holders}
    \cup {TamperUser(held[u], w) : u \in Holders, w \in UserIds}

\* the access tokens a client can present to the refresh route
RefreshAccessInputs == {Malformed} \cup {held[u] : u \in Holders}

\* the access tokens presented with a user-update request
UpdateInputs == {Missing} \cup {held[u] : u \in UserIds}

\* the refresh tokens a client can present: the column default and every
\* value a login returned
RefreshInputs == {""} \cup {Rand(n) : n \in 1..logins}

\* login(username, password)
LoginOutcome(username, password) ==
    LET found == {u \in UserIds : users[u].username = username}
    IN  IF found = {} \/ \E u \in found : users[u].pass # password
        THEN [ok |-> FALSE, status |-> "InvalidCredentials", user |-> 0,
              row |-> NoIdentity, response |-> LoginResponse(Missing, "")]
        ELSE LET u == CHOOSE v \in found : TRUE
                 refresh_token == Rand(logins + 1)
                 opt == [none EXCEPT !.refresh_token = Some(refresh_token)]
                 row == update_user(users[u], opt)
                 claims == TokenClaims(now + TokenLifetime, from_user(row))
             IN  [ok |-> TRUE, status |-> "ok", user |-> u, row |-> row,
                  response |-> LoginResponse(Sign(claims), refresh_token)]

LoginWithin(cap, username, password) ==
    /\ LET o == LoginOutcome(username, password)
       IN  /\ o.ok => minted < cap
           /\ resp' = Resp("login", o.status, "", NoIdentity, o.response.token,
                           o.response.refresh_token, Missing, "", NoReq, none, {})
           /\ IF o.ok
              THEN /\ users' = [users EXCEPT ![o.user] = o.row]
                   /\ handed' = [handed EXCEPT
                                     ![o.user] = Append(@, o.response.refresh_token)]
                   /\ held' = [held EXCEPT ![o.user] = o.response.token]
                   /\ minted' = minted + 1
                   /\ logins' = logins + 1
              ELSE UNCHANGED <<users, handed, held, minted, logins>>
    /\ UNCHANGED now
    /\ UNCHANGED langVars

Login(username, password) == LoginWithin(MaxMinted, username, password)

\* the mutant: the stored refresh token is not compared
RefreshOutcomeUnchecked(at, rt) ==
    LET d == Decode(at, FALSE)
    IN  IF ~d.ok THEN [ok |-> FALSE, status |-> "TokenInvalid", user |-> 0,
                       response |-> RefreshResponse(Missing)]
        ELSE LET user == users[d.claims.user.id]
                 claims == TokenClaims(now + TokenLifetime, from_user(user))
             IN  [ok |-> TRUE, status |-> "ok", user |-> user.id,
                  response |-> RefreshResponse(Sign(claims))]

\* refresh(access_token, refresh_token)
RefreshOutcome(at, rt) ==
    LET d == Decode(at, FALSE)
    IN  IF ~d.ok THEN [ok |-> FALSE, status |-> "TokenInvalid", user |-> 0,
                       response |-> RefreshResponse(Missing)]
        ELSE LET user == users[d.claims.user.id]
             IN  IF user.refresh_token # rt
                 THEN [ok |-> FALSE, status |-> "RefreshMismatch", user |-> 0,
                       response |-> RefreshResponse(Missing)]
                 ELSE [ok |-> TRUE, status |-> "ok", user |-> user.id,
                       response |-> RefreshResponse(
                           Sign(TokenClaims(now + TokenLifetime, from_user(user))))]

RefreshWithin(cap, at, rt) ==
    /\ LET o == RefreshOutcome(at, rt)
       IN  /\ o.ok => minted < cap
           /\ resp' = Resp("refresh", o.status, "", NoIdentity, o.response.token,
                           "", at, rt, NoReq, none, {})
           /\ IF o.ok
              THEN /\ held' = [held EXCEPT ![o.user] = o.response.token]
                   /\ minted' = minted + 1
              ELSE UNCHANGED <<held, minted>>
    /\ UNCHANGED <<users, now, logins, handed>>
    /\ UNCHANGED langVars

Refresh(at, rt) == RefreshWithin(MaxMinted, at, rt)

\* a protected request whose handler only reads the identity
ProtectedRequest(at) ==
    /\ LET x == from_request(HttpRequest(at))
       IN  resp' = Resp("request", x.status, x.body, x.user, Missing, "",
                        at, "", NoReq, none, x.eprintln)
    /\ UNCHANGED <<users, now, minted, logins, handed, held>>
    /\ UNCHANGED langVars

\* the protected user-update request
UpdateUser(at, req) ==
    /\ LET x == from_request(HttpRequest(at))
           opt == from_req(req)
           taken == \E u \in UserIds :
                        /\ u # x.user.id
                        /\ opt.username = Some(users[u].username)
       IN  IF ~x.ok
           THEN /\ resp' = Resp("update", x.status, x.body, x.user, Missing, "",
                                at, "", NoReq, none, x.eprintln)
                /\ UNCHANGED users
           ELSE IF taken
           THEN /\ resp' = Resp("update", "StoreUnavailable", "", x.user,
                                Missing, "", at, "", req, opt, x.eprintln)
                /\ UNCHANGED users
           ELSE /\ resp' = Resp("update", "ok", "", x.user, Missing, "",
                                at, "", req, opt, x.eprintln)
                /\ users' = [users EXCEPT ![x.user.id] = update_user(@, opt)]
    /\ UNCHANGED <<now, minted, logins, handed, held>>
    /\ UNCHANGED langVars

Tick ==
    /\ now < MaxTime
    /\ now' = now + 1
    /\ UNCHANGED <<users, minted, logins, handed, held, resp>>
    /\ UNCHANGED langVars

Next ==
    \/ \E n \in Usernames, p \in Passwords : Login(n, p)
    \/ \E at \in RefreshAccessInputs, rt \in RefreshInputs : Refresh(at, rt)
    \/ \E at \in AccessInputs : ProtectedRequest(at)
    \/ \E at \in UpdateInputs, req \in UpdateUserRequest : UpdateUser(at, req)
    \/ Tick

Spec == Init /\ [][Next]_vars

(* Logins and refreshes alone, with every access token a client can present *)
(* to the refresh route and a longer run of signed tokens.                  *)

\* RefreshRequest.token is a required field: malformed, held (valid or
\* expired) and tampered tokens
SessionAccessInputs == AccessInputs \ {Missing}

SessionLogin(username, password) == LoginWithin(MaxSessions, username, password)

SessionRefresh(at, rt) == RefreshWithin(MaxSessions, at, rt)

SessionNext ==
    \/ \E n \in Usernames, p \in Passwords : SessionLogin(n, p)
    \/ \E at \in SessionAccessInputs, rt \in RefreshInputs : SessionRefresh(at, rt)
    \/ Tick

SpecSessions == Init /\ [][SessionNext]_vars

-----------------------------------------------------------------------------
(* The caller of lang.rs: segment a text, then index its tokens. *)

LangInit ==
    /\ text \in Texts
    /\ lang \in LangCodes
    /\ pc = "start"
    /\ words = Returned(<<>>)
    /\ unique_words = NoObject
    /\ AuthIdle

GetWords ==
    /\ pc = "start"
    /\ words' = get_words(text, lang)
    /\ pc' = IF words'.kind = "ok" THEN "segmented" ELSE "panicked"
    /\ UNCHANGED <<text, lang, unique_words>>
    /\ UNCHANGED authVars

GetUniqueWords ==
    /\ pc = "segmented"
    /\ unique_words' = get_unique_words(words.tokens)
    /\ pc' = "indexed"
    /\ UNCHANGED <<text, lang, words>>
    /\ UNCHANGED authVars

LangNext == GetWords \/ GetUniqueWords

SpecLang == LangInit /\ [][LangNext]_vars

-----------------------------------------------------------------------------
(* Claims about lang.rs, checked under SpecLang *)

Supported == {"en", "zh"}

PurePunctOrSpace(w) ==
    w # <<>> /\ \A i \in 1..Len(w) : w[i] \in Punctuation \cup Whitespace

Tokens == {words.tokens[i] : i \in 1..Len(words.tokens)}

Hello == <<"h", "e", "l", "l", "o">>

World == <<"w", "o", "r", "l", "d">>

\* C1 (as stated): get_unique_words(words) has no key that is a pure
\* punctuation or pure whitespace token, and for the tokens of
\* "Hello, world!" its key set is exactly {"hello", "world"}.
C1_NoPunctuationKeys ==
    pc = "indexed" =>
        /\ \A k \in DOMAIN unique_words : ~PurePunctOrSpace(k)
        /\ (text = HelloWorld /\ lang = "en")
               => DOMAIN unique_words = {Hello, World}

\* C1 (amended): get_unique_words(words) filters nothing: every pure
\* punctuation or pure whitespace token of `words` is a key of the result,
\* mapped to true, and for the tokens of "Hello, world!" the key set is
\* exactly {"hello", ",", " ", "world", "!"}.
C1_PunctuationKeysRetained ==
    pc = "indexed" =>
        /\ \A w \in Tokens :
               PurePunctOrSpace(w) =>
                   w \in DOMAIN unique_words /\ unique_words[w] = TRUE
        /\ (text = HelloWorld /\ lang = "en")
               => DOMAIN unique_words = {Hello, <<",">>, <<" ">>, World, <<"!">>}

C1_Witness ==
    /\ pc = "indexed"
    /\ text = HelloWorld
    /\ lang = "en"
    /\ words.tokens = <<<<"H", "e", "l", "l", "o">>, <<",">>, <<" ">>, World, <<"!">>>>
    /\ <<",">> \in DOMAIN unique_words

\* C2 (as stated): get_words with a language code other than "en" and "zh"
\* fails with the error outcome UnsupportedLanguage returned to the caller.
C2_ReturnsUnsupportedLanguage ==
    (pc # "start" /\ lang \notin Supported) => words.kind = "err"

\* C2 (amended): get_words with a language code other than "en" and "zh"
\* panics, with a message carrying the text: it returns nothing to the
\* caller, neither a token sequence nor an error value, and never falls back
\* to a default segmentation strategy.
C2_UnsupportedLanguagePanics ==
    (pc # "start" /\ lang \notin Supported) =>
        /\ pc = "panicked"
        /\ words.kind = "panic"
        /\ words.tokens = <<>>
        /\ words.msg = text

C2_Witness ==
    /\ pc = "panicked"
    /\ lang = "EN"
    /\ text = <<"a", " ", "A">>
    /\ words.kind = "panic"

\* C3: for every text and every supported language, the tokens returned by
\* get_words, concatenated in order, are exactly the text.
C3_LosslessSegmentation ==
    (pc # "start" /\ lang \in Supported) =>
        /\ words.kind = "ok"
        /\ Concat(words.tokens) = text

C3_Witness ==
    /\ pc = "segmented"
    /\ lang = "en"
    /\ text = <<"a", "A", " ", ",">>
    /\ words.tokens = <<<<"a", "A">>, <<" ">>, <<",">>>>

\* C4: the key set of get_unique_words(words) is exactly the set of the
\* lowercased tokens, every key maps to true, and tokens that differ only in
\* case or are repeated yield one entry.
C4_CaseFoldedDeduplication ==
    pc = "indexed" =>
        /\ DOMAIN unique_words = {to_lowercase(w) : w \in Tokens}
        /\ \A k \in DOMAIN unique_words : unique_words[k] = TRUE
        /\ \A v, w \in Tokens :
               to_lowercase(v) = to_lowercase(w) =>
                   Cardinality({k \in DOMAIN unique_words :
                                    k \in {to_lowercase(v), to_lowercase(w)}}) = 1

C4_Witness ==
    /\ pc = "indexed"
    /\ words.tokens = <<<<"A">>, <<" ">>, <<"a">>>>
    /\ DOMAIN unique_words = {<<"a">>, <<" ">>}

\* sanity: the dictionary route and the merging of ASCII runs in the Chinese cut
ChineseCutSanity ==
    (pc = "segmented" /\ lang = "zh") =>
        /\ text = <<"U+6211", "U+6211", "U+4EEC", "a">>
              => words.tokens = <<<<"U+6211">>, <<"U+6211", "U+4EEC">>, <<"a">>>>
        /\ text = <<"a", "A", " ", " ">>
              => words.tokens = <<<<"a", "A">>, <<" ">>, <<" ">>>>
        /\ text = <<"a", "U+6211", "A", ",">>
              => words.tokens = <<<<"a">>, <<"U+6211">>, <<"A">>, <<",">>>>

-----------------------------------------------------------------------------
(* Claims about the tokens and the user records, checked under Spec *)

\* the refresh tokens logins returned to user u before the latest one
Earlier(u) == {handed[u][i] : i \in 1..(Len(handed[u]) - 1)}

\* the refresh token the latest login of u returned ("" before any login)
LastHanded(u) == IF handed[u] = <<>> THEN "" ELSE handed[u][Len(handed[u])]

Decodable(tok) == tok.form = "jwt" /\ tok.mac = tok.claims

ExpiredAt(tok, t) == Decodable(tok) /\ tok.claims.exp < t

ClaimsFields == {"id", "username", "created_on", "study_lang", "display_lang"}

\* C5 (as stated): per user at most one refresh token value is valid at a
\* time: a refresh succeeds only when the presented refresh token is the
\* value stored for the user, and once a later login has overwritten the
\* stored value every refresh presenting an earlier refresh token fails with
\* RefreshMismatch, whatever access token accompanies it.
C5_StaleAlwaysRefreshMismatch ==
    resp.op = "refresh" =>
        /\ resp.status = "ok" =>
               resp.rt = users[resp.at.claims.user.id].refresh_token
        /\ \A u \in UserIds :
               resp.rt \in Earlier(u) => resp.status = "RefreshMismatch"

\* C5 (amended): per user at most one refresh token value is valid at a
\* time: a refresh succeeds only when the presented refresh token is the
\* value stored for the user of the presented access token, and once a later
\* login has overwritten the stored value a refresh presenting an earlier
\* refresh token never succeeds: it fails with RefreshMismatch whenever the
\* accompanying access token decodes (valid or expired, the user's own or
\* another user's) and with TokenInvalid when it does not decode.
C5_SingleValidRefreshToken ==
    /\ \A u \in Holders :
           Cardinality({rt \in RefreshInputs : RefreshOutcome(held[u], rt).ok}) <= 1
    /\ resp.op = "refresh" =>
           /\ resp.status = "ok" =>
                  /\ Decodable(resp.at)
                  /\ resp.rt = users[resp.at.claims.user.id].refresh_token
           /\ \A u \in UserIds :
                  resp.rt \in Earlier(u) =>
                      resp.status = IF Decodable(resp.at) THEN "RefreshMismatch"
                                    ELSE "TokenInvalid"

\* an earlier refresh token of u, presented with the expired token of another
\* user w, after a refresh of u with the current value succeeded
C5_Witness ==
    /\ resp.op = "refresh"
    /\ resp.status = "RefreshMismatch"
    /\ \E u \in UserIds, w \in UserIds :
           /\ u # w
           /\ resp.rt \in Earlier(u)
           /\ resp.at = held[w]
           /\ ExpiredAt(resp.at, resp.time)
           /\ users[u].refresh_token = "r2"
           /\ RefreshOutcome(held[u], "r2").status = "ok"
           /\ held[u].claims.exp > held[w].claims.exp

\* C6: a successful refresh returns a signed token whose ClaimsUser holds the
\* five identity fields of the user record as stored at the time of the
\* refresh, not the claims of the presented token, also when the presented
\* token is expired.
C6_RefreshUsesStoredUser ==
    (resp.op = "refresh" /\ resp.status = "ok") =>
        LET c == resp.token.claims.user
            u == users[resp.at.claims.user.id]
        IN  /\ Decodable(resp.token)
            /\ resp.token.claims.exp = resp.time + TokenLifetime
            /\ c.id = u.id
            /\ c.username = u.username
            /\ c.created_on = u.created_on
            /\ c.study_lang = u.study_lang
            /\ c.display_lang = u.display_lang

C6_Witness ==
    /\ resp.op = "refresh"
    /\ resp.status = "ok"
    /\ ExpiredAt(resp.at, resp.time)
    /\ resp.at.claims.user.username = "ann"
    /\ resp.token.claims.user.username = "cyd"
    /\ users[1].username = "cyd"

\* C7: the identity a handler is given is the ClaimsUser embedded in the
\* presented, validly signed and unexpired token, whatever the user record
\* holds by then.
C7_IdentityIsIssuedSnapshot ==
    (resp.op \in {"request", "update"} /\ resp.identity # NoIdentity) =>
        /\ Decodable(resp.at)
        /\ ~ExpiredAt(resp.at, resp.time)
        /\ resp.identity = resp.at.claims.user

C7_Witness ==
    /\ resp.op = "request"
    /\ resp.status = "ok"
    /\ resp.identity.id = 1
    /\ resp.identity.username = "ann"
    /\ users[1].username = "cyd"
    /\ users[1].refresh_token = "r2"

\* C8: extraction yields an identity only when token authentication
\* succeeded; on a missing, malformed, tampered or expired token the handler
\* gets no identity and does not run, the answer is Unauthorized with the body
\* "auth_fail", and what is written to stderr is the error kind alone.
C8_VerifierIsSoleGate ==
    resp.op \in {"request", "update"} =>
        LET fails == \/ resp.at.form # "jwt"
                     \/ resp.at.mac # resp.at.claims
                     \/ resp.at.claims.exp < resp.time
        IN  /\ fails =>
                /\ resp.identity = NoIdentity
                /\ resp.status = "Unauthorized"
                /\ resp.body = "auth_fail"
                /\ resp.opt = none /\ resp.req = NoReq
                /\ resp.eprintln \subseteq {"TokenInvalid", "TokenExpired"}
            /\ ~fails =>
                /\ resp.identity # NoIdentity
                /\ resp.status # "Unauthorized"
                /\ resp.body = ""
                /\ resp.eprintln = {}

C8_Witness ==
    /\ resp.op = "update"
    /\ resp.status = "Unauthorized"
    /\ resp.body = "auth_fail"
    /\ ExpiredAt(resp.at, resp.time)
    /\ resp.eprintln = {"TokenExpired"}

\* C9: ClaimsUser::from_user copies exactly the fields id, username,
\* created_on, study_lang and display_lang and depends on nothing else:
\* records that differ only in pass or refresh_token give equal snapshots,
\* and no claims signed into a token hold the password or the refresh token.
C9_SnapshotOmitsCredentials ==
    /\ \A u \in UserIds :
           LET c == from_user(users[u])
           IN  /\ DOMAIN c = ClaimsFields
               /\ c.id = users[u].id
               /\ c.username = users[u].username
               /\ c.created_on = users[u].created_on
               /\ c.study_lang = users[u].study_lang
               /\ c.display_lang = users[u].display_lang
               /\ \A p \in Passwords, r \in RefreshInputs :
                      from_user([users[u] EXCEPT !.pass = p, !.refresh_token = r]) = c
    /\ \A u \in Holders :
           /\ DOMAIN held[u].claims.user = ClaimsFields
           /\ \A f \in {"username", "study_lang", "display_lang"} :
                  held[u].claims.user[f] \notin Passwords \cup RefreshInputs

C9_Witness ==
    \E u \in Holders :
        /\ users[u].pass = "pw2"
        /\ users[u].refresh_token = "r1"
        /\ held[u].claims.user = from_user(users[u])

\* C10: UpdateUserOpt::from_req passes username, password, study_lang and
\* display_lang through and yields refresh_token = None, UpdateUserOpt::none()
\* has all five fields None, and so after any profile updates the stored
\* refresh token of a user is the value the latest login set.
C10_UpdateKeepsRefreshToken ==
    /\ DOMAIN none = {"username", "pass", "study_lang", "display_lang", "refresh_token"}
    /\ \A f \in DOMAIN none : none[f] = None
    /\ (resp.op = "update" /\ resp.identity # NoIdentity) =>
           /\ resp.opt.refresh_token = None
           /\ resp.opt.username = resp.req.username
           /\ resp.opt.pass = resp.req.password
           /\ resp.opt.study_lang = resp.req.study_lang
           /\ resp.opt.display_lang = resp.req.display_lang
    /\ \A u \in UserIds : users[u].refresh_token = LastHanded(u)

C10_Witness ==
    /\ resp.op = "update"
    /\ resp.status = "ok"
    /\ resp.req.password = Some("pw2")
    /\ resp.opt.pass = Some("pw2")
    /\ users[resp.identity.id].pass = "pw2"
    /\ users[resp.identity.id].refresh_token = "r1"

====
